---- MODULE Spec2Model ----
(***************************************************************************)
(* State-machine model of estimate_shard_rows.py: the Monte Carlo          *)
(* estimator of the SolrCloud shards.rows "shard factor".                  *)
(*                                                                         *)
(* Numbers.  options.accuracy is a float; here it is held in tenths of a   *)
(* percent (990 is 99.0, 999 is 99.9).  np.percentile returns a float;     *)
(* here num_rows_needed holds the exact rational value times Scale.  All   *)
(* arithmetic is exact rational arithmetic (float64 rounding error is not  *)
(* modelled).                                                              *)
(***************************************************************************)
EXTENDS Integers, Sequences, FiniteSets, TLC

VARIABLES
    options,          \* parser.parse_args(): the five command line options
    pc,               \* position of main() / sample_probability()
    header,           \* TRUE once the header line has been printed
    output,           \* the table rows printed so far, [depth, factor]
    depth,            \* main: depth
    page,             \* main: page (loop index)
    trial,            \* main: trial (loop index)
    results,          \* main: results
    num_rows_needed,  \* main: num_rows_needed (times Scale)
    num_tries,        \* sample_probability: num_tries
    num_buckets,      \* sample_probability: num_buckets
    counts,           \* sample_probability: counts
    i,                \* sample_probability: i (loop index)
    error,            \* the uncaught exception that ended the run, or "none"
    calls,            \* history: the sample_probability calls completed since the last row
    runs              \* history: the number of sample_probability calls completed

vars == << options, pc, header, output, depth, page, trial, results,
           num_rows_needed, num_tries, num_buckets, counts, i, error, calls, runs >>

-----------------------------------------------------------------------------
(* Bounds of the model *)

MaxTrials == 3
MaxPages == 2
MaxRows == 2
MaxShards == 3
MaxDepth == 4
Wide == 101

(* the factor of the printed percentage, 100 * num_rows_needed / depth *)
Percent == 100

(* accuracy is held in tenths of a percent: q = accuracy / Scale *)
Scale == 10 * Percent

(* values of --accuracy, in tenths of a percent: -0.1, 0, 25, 99, 100, 100.1 *)
AccuracyValues == {-1, 0, 250, 990, 1000, 1001}

-----------------------------------------------------------------------------
(* Helpers *)

Abs(x) == IF x < 0 THEN 0 - x ELSE x

(* "%d" of a float: truncation toward zero; b # 0 *)
TruncDiv(a, b) ==
    IF (a >= 0) = (b > 0) THEN Abs(a) \div Abs(b) ELSE 0 - (Abs(a) \div Abs(b))

(* [0] * num_buckets: the empty list when num_buckets <= 0 *)
ZeroList(n) == [k \in 1..n |-> 0]

(* randint(a, b): the values it can return (none: it raises ValueError) *)
RandInt(a, b) == a..b

(* seeded fault: the smallest bucket instead of the largest *)
MaxCounts_Min(c) == CHOOSE m \in {c[k] : k \in 1..Len(c)} : \A k \in 1..Len(c) : m <= c[k]

(* max(counts), counts not empty *)
MaxCounts(c) == CHOOSE m \in {c[k] : k \in 1..Len(c)} : \A k \in 1..Len(c) : c[k] <= m

(* np.percentile(a, q), a not empty, 0 <= q <= 100, times Scale: linear       *)
(* interpolation between the sorted samples at rank q/100 * (n-1), zero-based *)
Percentile(a, acc) ==
    LET s == SortSeq(a, LAMBDA x, y : x < y)
        n == Len(s)
        idx == acc * (n - 1)
        below == idx \div Scale
        w == idx % Scale
        above == IF below + 1 > n - 1 THEN n - 1 ELSE below + 1
    IN  s[below + 1] * (Scale - w) + s[above + 1] * w

(* seeded fault: num_rows_needed rounded to the nearest integer before the division *)
ShardFactor_Rounded(needed, d) ==
    TruncDiv(Percent * ((needed + Scale \div 2) \div Scale), d)

(* "%d" % (100 * num_rows_needed / depth), depth # 0 *)
ShardFactor(needed, d) == TruncDiv(Percent * needed, Scale * d)

-----------------------------------------------------------------------------
(* Initial state: the options are read, nothing has run *)

InitWith(opts) ==
    /\ options \in opts
    /\ pc = "start"
    /\ header = FALSE
    /\ output = << >>
    /\ depth = 0
    /\ page = 0
    /\ trial = 0
    /\ results = << >>
    /\ num_rows_needed = 0
    /\ num_tries = 0
    /\ num_buckets = 0
    /\ counts = << >>
    /\ i = 0
    /\ error = "none"
    /\ calls = << >>
    /\ runs = 0

Options ==
    { o \in [ trial_count : 0..MaxTrials, page_count : 0..MaxPages,
              rows_per_page : -1..MaxRows, shard_count : 0..MaxShards,
              accuracy : AccuracyValues ] :
          o.page_count * o.rows_per_page <= MaxDepth }

Init == InitWith(Options)

Raise(e) ==
    /\ pc' = "crash"
    /\ error' = e

-----------------------------------------------------------------------------
(* main() *)

(* print the header; depth = options.rows_per_page *)
PrintHeader ==
    /\ pc = "start"
    /\ header' = TRUE
    /\ depth' = options.rows_per_page
    /\ page' = 0
    /\ pc' = "page_loop"
    /\ UNCHANGED << options, output, trial, results, num_rows_needed,
                    num_tries, num_buckets, counts, i, error, calls, runs >>

(* seeded fault: results is not emptied at the start of a page *)
PageLoop_KeepResults ==
    /\ pc = "page_loop"
    /\ IF page < options.page_count
         THEN /\ trial' = 0
              /\ pc' = "trial_loop"
         ELSE /\ pc' = "done"
              /\ UNCHANGED trial
    /\ UNCHANGED << options, header, output, depth, page, results, num_rows_needed,
                    num_tries, num_buckets, counts, i, error, calls, runs >>

(* for page in range(0, page_count): results = [] ; after the loop main returns *)
PageLoop ==
    /\ pc = "page_loop"
    /\ IF page < options.page_count
         THEN /\ results' = << >>
              /\ trial' = 0
              /\ pc' = "trial_loop"
         ELSE /\ pc' = "done"
              /\ UNCHANGED << results, trial >>
    /\ UNCHANGED << options, header, output, depth, page, num_rows_needed,
                    num_tries, num_buckets, counts, i, error, calls, runs >>

(* seeded fault: the item loop of the sampler starts at 1, range(1, num_tries) *)
TrialLoop_FromOne ==
    /\ pc = "trial_loop"
    /\ IF trial < options.trial_count
         THEN /\ num_tries' = depth
              /\ num_buckets' = options.shard_count
              /\ counts' = [k \in 1..options.shard_count |-> 0]
              /\ i' = 1
              /\ pc' = "sample"
         ELSE /\ pc' = "percentile"
              /\ UNCHANGED << num_tries, num_buckets, counts, i >>
    /\ UNCHANGED << options, header, output, depth, page, trial, results,
                    num_rows_needed, error, calls, runs >>

(* seeded fault: one trial too many, range(0, trial_count + 1) *)
TrialLoop_OneMore ==
    /\ pc = "trial_loop"
    /\ IF trial <= options.trial_count
         THEN /\ num_tries' = depth
              /\ num_buckets' = options.shard_count
              /\ counts' = [k \in 1..options.shard_count |-> 0]
              /\ i' = 0
              /\ pc' = "sample"
         ELSE /\ pc' = "percentile"
              /\ UNCHANGED << num_tries, num_buckets, counts, i >>
    /\ UNCHANGED << options, header, output, depth, page, trial, results,
                    num_rows_needed, error, calls, runs >>

(* for trial in range(0, trial_count): call sample_probability(depth, shard_count), *)
(* which starts with counts = [0] * num_buckets                                    *)
TrialLoop ==
    /\ pc = "trial_loop"
    /\ IF trial < options.trial_count
         THEN /\ num_tries' = depth
              /\ num_buckets' = options.shard_count
              /\ counts' = ZeroList(options.shard_count)
              /\ i' = 0
              /\ pc' = "sample"
         ELSE /\ pc' = "percentile"
              /\ UNCHANGED << num_tries, num_buckets, counts, i >>
    /\ UNCHANGED << options, header, output, depth, page, trial, results,
                    num_rows_needed, error, calls, runs >>

-----------------------------------------------------------------------------
(* sample_probability(num_tries, num_buckets) *)

(* counts[r] += 1, next i *)
PlaceItem(r) ==
    /\ counts' = [counts EXCEPT ![r + 1] = @ + 1]
    /\ i' = i + 1
    /\ UNCHANGED << pc, results, trial, error, calls, runs >>

(* seeded fault: max of no bucket is taken to be 0, max(counts + [0]) *)
ReturnMax_Default ==
    LET m == IF counts = << >> THEN 0
             ELSE CHOOSE v \in {counts[k] : k \in 1..Len(counts)} :
                      \A k \in 1..Len(counts) : counts[k] <= v
    IN  /\ results' = Append(results, m)
        /\ calls' = Append(calls, [n |-> num_tries, b |-> num_buckets, r |-> m])
        /\ runs' = runs + 1
        /\ trial' = trial + 1
        /\ pc' = "trial_loop"
        /\ UNCHANGED << counts, i, error >>

(* return max(counts), appended to results by the caller; max([]) raises *)
ReturnMax ==
    IF counts = << >>
      THEN /\ Raise("ValueError")
           /\ UNCHANGED << results, trial, counts, i, calls, runs >>
      ELSE /\ results' = Append(results, MaxCounts(counts))
           /\ calls' = Append(calls, [n |-> num_tries, b |-> num_buckets,
                                      r |-> MaxCounts(counts)])
           /\ runs' = runs + 1
           /\ trial' = trial + 1
           /\ pc' = "trial_loop"
           /\ UNCHANGED << counts, i, error >>

(* for i in range(0, num_tries): counts[randint(0, num_buckets-1)] += 1 *)
SampleLoop ==
    /\ pc = "sample"
    /\ IF i < num_tries
         THEN IF RandInt(0, num_buckets - 1) = {}
                THEN /\ Raise("ValueError")
                     /\ UNCHANGED << results, trial, counts, i, calls, runs >>
                ELSE \E r \in RandInt(0, num_buckets - 1) : PlaceItem(r)
         ELSE ReturnMax
    /\ UNCHANGED << options, header, output, depth, page, num_rows_needed,
                    num_tries, num_buckets >>

(* the same loop on the one random outcome that deals the items round robin *)
SampleLoopSpread ==
    /\ pc = "sample"
    /\ num_buckets >= 1
    /\ IF i < num_tries
         THEN PlaceItem(i % num_buckets)
         ELSE ReturnMax
    /\ UNCHANGED << options, header, output, depth, page, num_rows_needed,
                    num_tries, num_buckets >>

-----------------------------------------------------------------------------
(* main(), after the trials of a page *)

(* num_rows_needed = np.percentile(results, options.accuracy) *)
ComputePercentile ==
    /\ pc = "percentile"
    /\ IF options.accuracy < 0 \/ options.accuracy > Scale
         THEN /\ Raise("ValueError")
              /\ UNCHANGED num_rows_needed
         ELSE IF results = << >>
                THEN /\ Raise("IndexError")
                     /\ UNCHANGED num_rows_needed
                ELSE /\ num_rows_needed' = Percentile(results, options.accuracy)
                     /\ pc' = "print"
                     /\ UNCHANGED error
    /\ UNCHANGED << options, header, output, depth, page, trial, results,
                    num_tries, num_buckets, counts, i, calls, runs >>

(* print "%d\t%d%%" % (depth, 100 * num_rows_needed / depth) *)
PrintRow ==
    /\ pc = "print"
    /\ IF depth = 0
         THEN /\ Raise("ValueError")
              /\ UNCHANGED output
         ELSE /\ output' = Append(output,
                     [depth |-> depth, factor |-> ShardFactor(num_rows_needed, depth)])
              /\ pc' = "advance"
              /\ UNCHANGED error
    /\ UNCHANGED << options, header, depth, page, trial, results, num_rows_needed,
                    num_tries, num_buckets, counts, i, calls, runs >>

(* seeded fault: depth is not advanced with the page *)
Advance_KeepDepth ==
    /\ pc = "advance"
    /\ page' = page + 1
    /\ calls' = << >>
    /\ pc' = "page_loop"
    /\ UNCHANGED << options, header, output, depth, trial, results, num_rows_needed,
                    num_tries, num_buckets, counts, i, error, runs >>

(* depth += options.rows_per_page ; next page *)
Advance ==
    /\ pc = "advance"
    /\ depth' = depth + options.rows_per_page
    /\ page' = page + 1
    /\ calls' = << >>
    /\ pc' = "page_loop"
    /\ UNCHANGED << options, header, output, trial, results, num_rows_needed,
                    num_tries, num_buckets, counts, i, error, runs >>

-----------------------------------------------------------------------------
Next ==
    \/ PrintHeader
    \/ PageLoop
    \/ TrialLoop
    \/ SampleLoop
    \/ ComputePercentile
    \/ PrintRow
    \/ Advance

Spec == Init /\ [][Next]_vars

(* main() runs on one sequential path with no suspension point *)
FairSpec == Spec /\ WF_vars(Next)

(* many shards and a deep page, the items dealt round robin *)
WideOptions ==
    [ trial_count : {1}, page_count : {1}, rows_per_page : {Wide},
      shard_count : {Wide}, accuracy : {990} ]

InitWide == InitWith(WideOptions)

NextWide ==
    \/ PrintHeader
    \/ PageLoop
    \/ TrialLoop
    \/ SampleLoopSpread
    \/ ComputePercentile
    \/ PrintRow
    \/ Advance

SpecWide == InitWide /\ [][NextWide]_vars

-----------------------------------------------------------------------------
(* Vocabulary of the properties *)

(* the inputs the estimator's contract calls valid *)
ValidInput ==
    /\ options.trial_count >= 1
    /\ options.page_count >= 1
    /\ options.rows_per_page >= 1
    /\ options.shard_count >= 1
    /\ options.accuracy >= 0
    /\ options.accuracy <= Scale

(* the inputs that are to be rejected with InvalidArgument *)
InvalidArgs ==
    \/ options.shard_count < 1
    \/ options.trial_count < 1
    \/ options.rows_per_page < 1
    \/ options.accuracy < 0
    \/ options.accuracy > Scale

Terminated == pc \in {"done", "crash"}

(* the k-th smallest element of a, k zero-based, by counting *)
OrderStat(a, k) ==
    CHOOSE v \in {a[j] : j \in 1..Len(a)} :
        /\ Cardinality({j \in 1..Len(a) : a[j] < v}) <= k
        /\ k < Cardinality({j \in 1..Len(a) : a[j] <= v})

(* the value, times Scale, interpolated at zero-based rank acc/Scale * (n-1) *)
Interpolated(a, acc) ==
    LET n == Len(a)
        lo == (acc * (n - 1)) \div Scale
        hi == IF lo + 1 <= n - 1 THEN lo + 1 ELSE n - 1
        w == acc * (n - 1) - lo * Scale
    IN  Scale * OrderStat(a, lo) + w * (OrderStat(a, hi) - OrderStat(a, lo))

(* the integers nearest to v / Scale (two of them on a tie) *)
Nearest(v) == {r \in 0..(v \div Scale) + 1 : 2 * Abs(r * Scale - v) <= Scale}

LastRow == output[Len(output)]

-----------------------------------------------------------------------------
(* C1: for valid inputs and every random outcome, every shard factor       *)
(* emitted is an integer percentage f with 0 < f <= 100.                   *)
C1_ShardFactorInRange ==
    ValidInput =>
        \A k \in 1..Len(output) : output[k].factor > 0 /\ output[k].factor <= Percent

(* C2: for num_items n >= 0 and num_buckets b >= 1 and every choice of      *)
(* bucket per item, the sampler returns r with ceil(n / b) <= r <= n; it   *)
(* returns n when b = 1 and 0 when n = 0.                                  *)
C2_SamplerBounds ==
    \A k \in 1..Len(calls) :
        LET e == calls[k] IN
        (e.n >= 0 /\ e.b >= 1) =>
            /\ e.r * e.b >= e.n
            /\ e.r <= e.n
            /\ (e.b = 1 => e.r = e.n)
            /\ (e.n = 0 => e.r = 0)

C2_Witness ==
    \E k \in 1..Len(calls) :
        /\ calls[k].b >= 2
        /\ calls[k].n >= 2
        /\ calls[k].r < calls[k].n
        /\ calls[k].r * calls[k].b > calls[k].n

(* C3: the percentile value is large enough that at least accuracy percent *)
(* of the trials of the Trial Set have a max bucket occupancy <= it.       *)
C3_PercentileCovers ==
    (pc = "print" /\ ValidInput) =>
        Cardinality({k \in 1..Len(results) : results[k] * Scale <= num_rows_needed}) * Scale
            >= options.accuracy * Len(results)

(* C4, as claimed: the emitted percentage is the truncating division of    *)
(* 100 * rounded percentile value by depth, the percentile value rounded   *)
(* to the nearest integer first.                                           *)
C4_RoundedThenTruncated ==
    (pc = "advance" /\ ValidInput) =>
        \E r \in Nearest(Interpolated(results, options.accuracy)) :
            LastRow.factor = TruncDiv(Percent * r, depth)

(* C4, amended: the emitted percentage is the truncating division of       *)
(* 100 * percentile value by depth, the interpolated percentile value      *)
(* taken as it is, with no rounding before the multiplication and division *)
C4_TruncatedUnrounded ==
    (pc = "advance" /\ ValidInput) =>
        LET v == Interpolated(results, options.accuracy)
            f == LastRow.factor
        IN  /\ f * depth * Scale <= Percent * v
            /\ Percent * v < (f + 1) * depth * Scale

C4_Witness ==
    /\ pc = "advance"
    /\ ValidInput
    /\ num_rows_needed % Scale # 0
    /\ LastRow.factor # TruncDiv(Percent * (num_rows_needed \div Scale), depth)

(* C5: started with shard_count < 1, trial_count < 1, rows_per_page < 1 or *)
(* accuracy outside [0,100], the estimator ends in an InvalidArgument      *)
(* error, before any sampler trial has run and before any output, the      *)
(* header row included.                                                    *)
C5_FailsFast ==
    InvalidArgs =>
        /\ header = FALSE
        /\ output = << >>
        /\ runs = 0
        /\ (Terminated => error = "InvalidArgument")

(* C6: for valid inputs the table of a completed run has exactly           *)
(* page_count rows, the k-th row has depth k * rows_per_page, and rows are *)
(* emitted by strictly increasing depth with no gap and no duplicate.      *)
C6_DepthTable ==
    ValidInput =>
        /\ \A k \in 1..Len(output) : output[k].depth = k * options.rows_per_page
        /\ \A k \in 1..Len(output) - 1 : output[k].depth < output[k + 1].depth
        /\ Len(output) <= options.page_count
        /\ (Terminated => pc = "done" /\ Len(output) = options.page_count)

C6_Witness ==
    /\ ValidInput
    /\ pc = "done"
    /\ Len(output) >= 2
    /\ options.rows_per_page >= 2

(* C7: with shard_count = 1 and valid inputs, every row of the table has   *)
(* shard factor exactly 100.                                               *)
C7_SingleShard ==
    (ValidInput /\ options.shard_count = 1) =>
        /\ \A k \in 1..Len(output) : output[k].factor = Percent
        /\ (Terminated => pc = "done" /\ Len(output) = options.page_count)

C7_Witness ==
    /\ ValidInput
    /\ options.shard_count = 1
    /\ options.trial_count >= 2
    /\ options.accuracy = 990
    /\ pc = "done"
    /\ Len(output) >= 2

C9_RowAfterTrials ==
    /\ runs >= Len(output) * options.trial_count
    /\ pc = "advance" =>
        LET tc == options.trial_count
            k == Len(output)
        IN  /\ runs = k * tc
            /\ Len(calls) = tc
            /\ Len(results) = tc
            /\ \A j \in 1..tc :
                  calls[j] =
                      [n |-> LastRow.depth, b |-> options.shard_count, r |-> results[j]]

C9_Witness ==
    /\ pc = "advance"
    /\ Len(output) = 2
    /\ options.trial_count >= 2
    /\ options.shard_count >= 2
    /\ results[1] # results[2]

(* C10: for every valid input the estimator eventually terminates in the   *)
(* success state, having performed exactly page_count * trial_count        *)
(* sampler runs, whatever the random outcomes.                             *)
C10_Terminates ==
    /\ ValidInput ~> (pc = "done" /\ error = "none"
                      /\ runs = options.page_count * options.trial_count)
    /\ []((ValidInput /\ Terminated) =>
            (pc = "done" /\ runs = options.page_count * options.trial_count))

C10_Witness ==
    /\ ValidInput
    /\ pc = "done"
    /\ options.page_count >= 2
    /\ options.trial_count >= 2
    /\ runs = options.page_count * options.trial_count

====
